---- MODULE Spec2Model ----
(***************************************************************************)
(* A model of namegen.py: the rule library, the PartitionGroup generator   *)
(* and the driver (__main__) that feeds the partitions to the Markov chain *)
(* and runs the generation loop.                                           *)
(*                                                                         *)
(* A word is a sequence of one-character strings (list(word)); a segment   *)
(* (a Python str built by ''.join and +=) is a sequence of characters too, *)
(* so the empty string is <<>>.                                            *)
(***************************************************************************)
EXTENDS Integers, Sequences, FiniteSets, TLC

----------------------------------------------------------------------------
(* Bounds of the model *)

\* longest word of the enumerated corpora (letters of all its words together)
MaxLen == 3
\* most words in an enumerated corpus
MaxWords == 2
\* depth at which the interpreter refuses another nested call of choose_randomly
RecursionLimit == 2

----------------------------------------------------------------------------
(* namegen_utils (not part of the sources): the alphabet classifier *)

VOWEL_SET == {"a", "e", "i", "o", "u"}

COMMON_LETTERS == {"d", "l", "n", "r", "s", "t"}

\* the letters the enumerated words are built from: a vowel, a common
\* consonant, an uncommon consonant
Alphabet == {"o", "d", "q"}

----------------------------------------------------------------------------
(* Python list and str primitives *)

Min(a, b) == IF a < b THEN a ELSE b
Max(a, b) == IF a > b THEN a ELSE b

\* l[:n]
PySliceTo(l, n) ==
    LET stop == IF n >= 0 THEN Min(n, Len(l)) ELSE Max(Len(l) + n, 0)
    IN  SubSeq(l, 1, stop)

\* l[n:]
PySliceFrom(l, n) ==
    LET start == IF n >= 0 THEN Min(n, Len(l)) ELSE Max(Len(l) + n, 0)
    IN  SubSeq(l, start + 1, Len(l))

\* ''.join(segments)
RECURSIVE Join(_)
Join(segs) == IF segs = <<>> THEN <<>> ELSE Head(segs) \o Join(Tail(segs))

----------------------------------------------------------------------------
(* The rule library: each rule returns (match, consume), or raises *)

Result(m, c) == [match |-> m, consume |-> c, raised |-> FALSE]

\* an exception escaped the rule (IndexError)
Raised == [match |-> FALSE, consume |-> 0, raised |-> TRUE]

letters(what) == Result(TRUE, 1)

eachvowel(what) ==
    IF what = <<>> THEN Raised ELSE Result(what[1] \in VOWEL_SET, 1)

\* the count the for loop of groupedvowels ends with
RECURSIVE VowelRun(_)
VowelRun(what) ==
    IF what # <<>> /\ Head(what) \in VOWEL_SET
    THEN 1 + VowelRun(Tail(what))
    ELSE 0

groupedvowelsSingle(what) ==
    LET count == VowelRun(what)
    IN  IF count >= 1 THEN Result(TRUE, count) ELSE Result(FALSE, 1)

groupedvowelsCountsPast(what) ==
    LET count == VowelRun(what)
    IN  IF count >= 2 THEN Result(TRUE, count + 1) ELSE Result(FALSE, 1)

groupedvowels(what) ==
    LET count == VowelRun(what)
    IN  IF count >= 2 THEN Result(TRUE, count) ELSE Result(FALSE, 1)

vowelconsonant(what) ==
    IF Len(what) > 1 /\ ((what[1] \in VOWEL_SET) # (what[2] \in VOWEL_SET))
    THEN Result(TRUE, 2)
    ELSE Result(FALSE, 1)

twocommonNoLengthTest(what) ==
    IF Len(what) < 2 THEN Raised
    ELSE IF \A i \in 1..2 : what[i] \in COMMON_LETTERS
         THEN Result(TRUE, 2) ELSE Result(FALSE, 1)

twocommon(what) ==
    IF Len(what) >= 2 /\ \A i \in 1..2 : what[i] \in COMMON_LETTERS
    THEN Result(TRUE, 2)
    ELSE Result(FALSE, 1)

\* the keys of METHOD_MAPPING and the function each names
METHOD_MAPPING ==
    [ letters       |-> "letters",
      eachvowel     |-> "eachvowel",
      groupedvowels |-> "groupedvowels",
      opposing      |-> "vowelconsonant",
      twocommon     |-> "twocommon",
      random        |-> "choose_randomly" ]

MethodNames == DOMAIN METHOD_MAPPING

\* the five functions that compute a result themselves
PlainRules == {"letters", "eachvowel", "groupedvowels", "vowelconsonant", "twocommon"}

\* calling one of the five plain rule functions
CallRule(f, what) ==
    CASE f = "letters"        -> letters(what)
      [] f = "eachvowel"      -> eachvowel(what)
      [] f = "groupedvowels"  -> groupedvowels(what)
      [] f = "vowelconsonant" -> vowelconsonant(what)
      [] f = "twocommon"      -> twocommon(what)

----------------------------------------------------------------------------
(* The body of PartitionGroup's while loop *)

\* the choices of --split
SplitChoices == {"around", "before", "after", "random"}

\* what random.choice(('before', 'after', 'around')) can return
ResolvedPositions == {"before", "after", "around"}

AlwaysResolves(orig) == TRUE

\* the test that re-resolves the position at an iteration
ResolvesPosition(orig) == orig = "random"

ResolveOnce(orig, pos) ==
    IF ResolvesPosition(orig) /\ pos \notin ResolvedPositions
    THEN ResolvedPositions
    ELSE {pos}

\* the values position can have after lines 45-46, pos being its value before
Resolve(orig, pos) ==
    IF ResolvesPosition(orig) THEN ResolvedPositions ELSE {pos}

StitchMatchedOverwriting(nm, consumed, pos) ==
    IF pos = "before" THEN Append(nm, consumed)
    ELSE IF pos = "after"
         THEN Append([nm EXCEPT ![Len(nm)] = consumed], <<>>)
         ELSE nm \o <<consumed, <<>>>>

StitchMatchedSwapped(nm, consumed, pos) ==
    IF pos = "after" THEN Append(nm, consumed)
    ELSE IF pos = "before"
         THEN Append([nm EXCEPT ![Len(nm)] = @ \o consumed], <<>>)
         ELSE nm \o <<consumed, <<>>>>

\* the if/elif/else on position: how a matched run joins the accumulators
StitchMatched(nm, consumed, pos) ==
    IF pos = "before" THEN Append(nm, consumed)
    ELSE IF pos = "after"
         THEN Append([nm EXCEPT ![Len(nm)] = @ \o consumed], <<>>)
         ELSE nm \o <<consumed, <<>>>>

AbsorbUnmatchedMerging(l, nm) ==
    [letterlist  |-> Tail(l),
     nonmatching |-> <<Join(nm) \o <<l[1]>>>>]

AbsorbUnmatchedNoPop(l, nm) ==
    [letterlist  |-> l,
     nonmatching |-> [nm EXCEPT ![Len(nm)] = @ \o <<l[1]>>]]

\* nonmatching[-1] += letterlist.pop(0)
AbsorbUnmatched(l, nm) ==
    [letterlist  |-> Tail(l),
     nonmatching |-> [nm EXCEPT ![Len(nm)] = @ \o <<l[1]>>]]

\* the loop body after the rule has returned r without raising
Body(l, nm, pos, r) ==
    IF r.match
    THEN [letterlist  |-> PySliceFrom(l, r.consume),
          nonmatching |-> StitchMatched(nm, PySliceTo(l, r.consume), pos)]
    ELSE AbsorbUnmatched(l, nm)

YieldTupleUnfiltered(nm) == nm

\* tuple(x for x in nonmatching if x)
YieldTuple(nm) == SelectSeq(nm, LAMBDA x : x # <<>>)

----------------------------------------------------------------------------
(* The inputs *)

Seqs(S, n) == UNION {[1..k -> S] : k \in 0..n}

Words == Seqs(Alphabet, MaxLen)

Food == <<"f", "o", "o", "d">>

Queue == <<"q", "u", "e", "u", "e">>

\* the lists of at most k words with at most n letters together
RECURSIVE WordLists(_, _)
WordLists(k, n) ==
    IF k = 0 THEN {<<>>}
    ELSE {<<>>} \cup UNION {{<<w>> \o c : c \in WordLists(k - 1, n - Len(w))} :
                              w \in Seqs(Alphabet, n)}

\* the word lists read from the input files
Corpora == WordLists(MaxWords, MaxLen) \cup {<<Food>>, <<Queue>>}

\* what can be typed after --method and --split
TypedMethods == MethodNames \cup {"bogus"}

TypedSplits == SplitChoices \cup {"bogus"}

----------------------------------------------------------------------------
(* The state *)

VARIABLES
    pc,                \* where __main__ is
    error,             \* the error that ended the program, "" if none
    argMethod,         \* the value typed after --method
    argSplit,          \* the value typed after --split
    entries,           \* the filtered words of the input files
    whatfunc,          \* args.method after the lookup in METHOD_MAPPING
    original_position, \* PartitionGroup's local of that name
    position,          \* PartitionGroup's parameter, reassigned when random
    widx,              \* how many words the for loop has taken
    letterlist,        \* the letters of the current word still to consume
    nonmatching,       \* the accumulators of the current word
    yielded,           \* the tuples handed to chain.UpdateTermString, in order
    attempts,          \* calls of whatfunc made for the current word
    depth,             \* nested calls of choose_randomly now on the stack
    selected,          \* the key random.choice returned to the running choose_randomly
    pass,              \* which call of PartitionGroup over entries this is
    previous,          \* what the previous call of PartitionGroup yielded
    probe,             \* a rule applied on its own: its name, input, result
    seen,              \* the set of names not to present (again)
    terminate_after,   \* generations left before the loop gives up
    generated,         \* whether chain.GenerateChain() last returned something:
                       \* "" before the first call, then "none" or "some"
    presented          \* how many times each name was shown to the operator

partitionVars ==
    <<position, widx, letterlist, nonmatching, yielded, attempts, depth, selected>>

argVars == <<argMethod, argSplit, entries>>

generationVars == <<seen, terminate_after, generated, presented>>

vars ==
    <<pc, error, argVars, whatfunc, original_position, partitionVars,
      pass, previous, probe, generationVars>>

NoProbe == [name |-> "", what |-> <<>>, result |-> Result(FALSE, 0)]

\* everything but the inputs, before the program has done anything
Blank ==
    /\ pc = "start"
    /\ error = ""
    /\ whatfunc = ""
    /\ original_position = ""
    /\ position = ""
    /\ widx = 0
    /\ letterlist = <<>>
    /\ nonmatching = <<>>
    /\ yielded = <<>>
    /\ attempts = 0
    /\ depth = 0
    /\ selected = ""
    /\ pass = 1
    /\ previous = <<>>
    /\ probe = NoProbe
    /\ seen = {}
    /\ terminate_after = 0
    /\ generated = ""
    /\ presented = <<>>

Init ==
    /\ Blank
    /\ argMethod \in TypedMethods
    /\ argSplit \in TypedSplits
    /\ entries \in Corpora

----------------------------------------------------------------------------
(* __main__: the arguments *)

ChoicesOfMethodOnly(m, s) == m \in MethodNames

\* argparse's choices= of --method and --split
ChoicesAccept(m, s) == m \in MethodNames /\ s \in SplitChoices

\* ap.parse_args() exits with a usage error
ParseArgsError ==
    /\ pc = "start"
    /\ ~ChoicesAccept(argMethod, argSplit)
    /\ pc' = "error"
    /\ error' = "usage"
    /\ UNCHANGED <<argVars, whatfunc, original_position, partitionVars,
                   pass, previous, probe, generationVars>>

\* the arguments parse; args.method is looked up and PartitionGroup is called
ParseArgs ==
    /\ pc = "start"
    /\ ChoicesAccept(argMethod, argSplit)
    /\ IF argMethod \in DOMAIN METHOD_MAPPING
       THEN /\ whatfunc' = METHOD_MAPPING[argMethod]
            /\ pc' = "for"
            /\ error' = error
       ELSE /\ whatfunc' = whatfunc
            /\ pc' = "error"
            /\ error' = "KeyError"
    /\ original_position' = argSplit
    /\ position' = argSplit
    /\ UNCHANGED <<argVars, widx, letterlist, nonmatching, yielded, attempts,
                   depth, selected, pass, previous, probe, generationVars>>

----------------------------------------------------------------------------
(* PartitionGroup *)

StaleNonmatching == IF widx = 0 THEN <<<<>>>> ELSE nonmatching

\* nonmatching = ['']
FreshNonmatching == <<<<>>>>

WhileTestAlways(l) == TRUE

\* while letterlist: a list is true when it is not empty
WhileTest(l) == l # <<>>

\* for word in entries: the next word is taken
NextWord ==
    /\ pc = "for"
    /\ widx < Len(entries)
    /\ widx' = widx + 1
    /\ letterlist' = entries[widx + 1]
    /\ nonmatching' = FreshNonmatching
    /\ attempts' = 0
    /\ pc' = "while"
    /\ UNCHANGED <<error, argVars, whatfunc, original_position, position,
                   yielded, depth, selected, pass, previous, probe,
                   generationVars>>

\* the effect of the rest of the iteration once the rule has returned r;
\* like what[0] in a rule, letterlist.pop(0) raises IndexError on an empty list
Finish(pos, r) ==
    IF r.raised \/ (~r.match /\ letterlist = <<>>)
    THEN /\ pc' = "error"
         /\ error' = "IndexError"
         /\ UNCHANGED <<letterlist, nonmatching>>
    ELSE LET b == Body(letterlist, nonmatching, pos, r)
         IN  /\ letterlist' = b.letterlist
             /\ nonmatching' = b.nonmatching
             /\ pc' = "while"
             /\ error' = error

\* one iteration of the while loop with one of the five plain rules
Iterate ==
    /\ pc = "while"
    /\ WhileTest(letterlist)
    /\ whatfunc \in PlainRules
    /\ \E p \in Resolve(original_position, position) :
         /\ position' = p
         /\ Finish(position', CallRule(whatfunc, letterlist))
    /\ attempts' = attempts + 1
    /\ UNCHANGED <<argVars, whatfunc, original_position, widx, yielded, depth,
                   selected, pass, previous, probe, generationVars>>

\* the start of an iteration whose rule is choose_randomly: the position is
\* resolved and choose_randomly is entered
IterateRandom ==
    /\ pc = "while"
    /\ WhileTest(letterlist)
    /\ whatfunc = "choose_randomly"
    /\ \E p \in Resolve(original_position, position) :
         position' = p
    /\ attempts' = attempts + 1
    /\ depth' = 1
    /\ selected' = ""
    /\ pc' = "choose"
    /\ UNCHANGED <<error, argVars, whatfunc, original_position, widx,
                   letterlist, nonmatching, yielded, pass, previous, probe,
                   generationVars>>

\* choose_randomly: random.choice returns one of the five plain rules, which
\* is called; its result returns through every nested call to the loop
ChooseDelegate ==
    /\ pc = "choose"
    /\ \E n \in DOMAIN METHOD_MAPPING :
         /\ METHOD_MAPPING[n] \in PlainRules
         /\ Finish(position, CallRule(METHOD_MAPPING[n], letterlist))
    /\ selected' = ""
    /\ depth' = 0
    /\ UNCHANGED <<argVars, whatfunc, original_position, position, widx,
                   yielded, attempts, pass, previous, probe, generationVars>>

\* choose_randomly: random.choice returns the entry of choose_randomly
\* itself, which is called
ChooseSelf ==
    /\ pc = "choose"
    /\ \E n \in DOMAIN METHOD_MAPPING :
         /\ METHOD_MAPPING[n] = "choose_randomly"
         /\ selected' = n
    /\ depth < RecursionLimit
    /\ depth' = depth + 1
    /\ UNCHANGED <<pc, error, argVars, whatfunc, original_position, position,
                   widx, letterlist, nonmatching, yielded, attempts, pass,
                   previous, probe, generationVars>>

\* choose_randomly calls itself once more than the interpreter allows
ChooseOverflow ==
    /\ pc = "choose"
    /\ \E n \in DOMAIN METHOD_MAPPING :
         /\ METHOD_MAPPING[n] = "choose_randomly"
         /\ selected' = n
    /\ depth >= RecursionLimit
    /\ pc' = "error"
    /\ error' = "RecursionError"
    /\ UNCHANGED <<argVars, whatfunc, original_position, position, widx,
                   letterlist, nonmatching, yielded, attempts, depth, pass,
                   previous, probe, generationVars>>

\* the while loop ends; the tuple is yielded and taken by UpdateTermString
Yield ==
    /\ pc = "while"
    /\ ~WhileTest(letterlist)
    /\ yielded' = Append(yielded, YieldTuple(nonmatching))
    /\ pc' = "for"
    /\ UNCHANGED <<error, argVars, whatfunc, original_position, position,
                   widx, letterlist, nonmatching, attempts, depth, selected,
                   pass, previous, probe, generationVars>>

\* the for loop ends: every word has been partitioned
Partitioned ==
    /\ pc = "for"
    /\ widx = Len(entries)
    /\ pc' = "partitioned"
    /\ UNCHANGED <<error, argVars, whatfunc, original_position, partitionVars,
                   pass, previous, probe, generationVars>>

Next ==
    \/ ParseArgsError
    \/ ParseArgs
    \/ NextWord
    \/ Iterate
    \/ IterateRandom
    \/ ChooseDelegate
    \/ ChooseSelf
    \/ ChooseOverflow
    \/ Yield
    \/ Partitioned

Spec == Init /\ [][Next]_vars

----------------------------------------------------------------------------
(* PartitionGroup called a second time with the same arguments *)

\* a corpus of one word at most
RerunInit ==
    /\ Blank
    /\ argMethod \in TypedMethods
    /\ argSplit \in TypedSplits
    /\ entries \in WordLists(1, MaxLen) \cup {<<Food>>, <<Queue>>}

\* the first generator is exhausted; PartitionGroup(entries, args.method,
\* args.split) is called again and starts with fresh locals
Rerun ==
    /\ pc = "partitioned"
    /\ pass = 1
    /\ pass' = 2
    /\ previous' = yielded
    /\ yielded' = <<>>
    /\ position' = argSplit
    /\ widx' = 0
    /\ letterlist' = <<>>
    /\ nonmatching' = <<>>
    /\ attempts' = 0
    /\ pc' = "for"
    /\ UNCHANGED <<error, argVars, whatfunc, original_position, depth,
                   selected, probe, generationVars>>

RerunNext ==
    \/ Next
    \/ Rerun

RerunSpec == RerunInit /\ [][RerunNext]_vars

----------------------------------------------------------------------------
(* A rule called on its own *)

RuleInit ==
    /\ Blank
    /\ argMethod = "letters"
    /\ argSplit = "around"
    /\ entries = <<>>

\* one of the five plain rules is called on a list of letters
ApplyRule ==
    /\ \E f \in PlainRules, what \in Words \cup {Food, Queue} :
          probe' = [name |-> f, what |-> what, result |-> CallRule(f, what)]
    /\ UNCHANGED <<pc, error, argVars, whatfunc, original_position,
                   partitionVars, pass, previous, generationVars>>

\* choose_randomly is called on a list of letters and returns: what it
\* returns is what the plain rule it ended on returned
ApplyRandom ==
    /\ \E n \in DOMAIN METHOD_MAPPING, what \in Words \cup {Food, Queue} :
          /\ METHOD_MAPPING[n] \in PlainRules
          /\ probe' = [name |-> "choose_randomly", what |-> what,
                       result |-> CallRule(METHOD_MAPPING[n], what)]
    /\ UNCHANGED <<pc, error, argVars, whatfunc, original_position,
                   partitionVars, pass, previous, generationVars>>

RuleNext ==
    \/ ApplyRule
    \/ ApplyRandom

RuleSpec == RuleInit /\ [][RuleNext]_vars

----------------------------------------------------------------------------
(* PartitionGroup called with a rule of the caller's own *)

\* most iterations followed in one word when the rule is the caller's own
MaxAttempts == 3

\* what a rule of the caller's own returns: no match, or a match with a
\* consume count of zero or less
CustomResults == {Result(FALSE, 1), Result(TRUE, 0), Result(TRUE, 0 - 1)}

\* PartitionGroup(entries, whatfunc, position) is called with such a rule
CustomInit ==
    /\ argMethod = "custom"
    /\ argSplit \in SplitChoices
    /\ entries \in WordLists(1, MaxLen) \cup {<<Food>>}
    /\ whatfunc = "custom"
    /\ original_position = argSplit
    /\ position = argSplit
    /\ pc = "for"
    /\ error = ""
    /\ widx = 0
    /\ letterlist = <<>>
    /\ nonmatching = <<>>
    /\ yielded = <<>>
    /\ attempts = 0
    /\ depth = 0
    /\ selected = ""
    /\ pass = 1
    /\ previous = <<>>
    /\ probe = NoProbe
    /\ seen = {}
    /\ terminate_after = 0
    /\ generated = ""
    /\ presented = <<>>

\* one iteration of the while loop with the caller's rule; the value the
\* rule returned is kept in probe
IterateCustom ==
    /\ pc = "while"
    /\ WhileTest(letterlist)
    /\ whatfunc = "custom"
    /\ attempts < MaxAttempts
    /\ \E p \in Resolve(original_position, position), r \in CustomResults :
         /\ position' = p
         /\ probe' = [name |-> whatfunc, what |-> letterlist, result |-> r]
         /\ Finish(position', r)
    /\ attempts' = attempts + 1
    /\ UNCHANGED <<argVars, whatfunc, original_position, widx, yielded, depth,
                   selected, pass, previous, generationVars>>

CustomNext ==
    \/ NextWord
    \/ IterateCustom
    \/ Yield
    \/ Partitioned

CustomSpec == CustomInit /\ [][CustomNext]_vars

----------------------------------------------------------------------------
(* __main__: the generation loop *)

\* longest sequence of characters chain.GenerateChain() returns, and one
\* more than the longest word of the corpora the loop is run on
MaxGenLen == 2

TERMINATION_COUNT == 2048

\* a lower-case letter, its upper-case form, and a space
GenChars == {"a", "A", " "}

Upper(c) == IF c = "a" THEN "A" ELSE c

Lower(c) == IF c = "A" THEN "a" ELSE c

IsSpace(c) == c = " "

\* str.lstrip()
RECURSIVE LStrip(_)
LStrip(str) == IF str # <<>> /\ IsSpace(Head(str)) THEN LStrip(Tail(str)) ELSE str

\* str.rstrip()
RECURSIVE RStrip(_)
RStrip(str) ==
    IF str # <<>> /\ IsSpace(str[Len(str)])
    THEN RStrip(SubSeq(str, 1, Len(str) - 1))
    ELSE str

\* str.strip()
Strip(str) == RStrip(LStrip(str))

\* str.capitalize()
Capitalize(str) ==
    [i \in 1..Len(str) |-> IF i = 1 THEN Upper(str[i]) ELSE Lower(str[i])]

\* ''.join(generated).strip().capitalize()
Stringified(g) == Capitalize(Strip(g))

AlwaysNew(name, names) == TRUE

\* stringified not in seen
NotSeen(name, names) == name \notin names

\* the non-empty results of chain.GenerateChain(), joined
GenOutputs == Seqs(GenChars, MaxGenLen) \ {<<>>}

\* the names those results are turned into
GenNames == {Stringified(g) : g \in GenOutputs}

\* the corpora the generation loop is run on: at most one word
GenCorpora == {<<>>} \cup {<<w>> : w \in Seqs(GenChars, MaxGenLen - 1)}

GenInit ==
    /\ Blank
    /\ argMethod = "letters"
    /\ argSplit = "around"
    /\ entries \in GenCorpora

\* seen = set([x.capitalize() for x in entries]); the counter is set
SeenInit ==
    /\ pc = "partitioned"
    /\ seen' = {Capitalize(entries[i]) : i \in 1..Len(entries)}
    /\ terminate_after' = TERMINATION_COUNT
    /\ pc' = "generate"
    /\ UNCHANGED <<error, argVars, whatfunc, original_position, partitionVars,
                   pass, previous, probe, generated, presented>>

\* an iteration in which GenerateChain returns nothing (if generated: is
\* false): neither branch of the inner if is run, the counter stays
GenerateNone ==
    /\ pc = "generate"
    /\ terminate_after # 0
    /\ generated' = "none"
    /\ UNCHANGED <<pc, error, argVars, whatfunc, original_position,
                   partitionVars, pass, previous, probe, seen,
                   terminate_after, presented>>

\* an iteration in which GenerateChain returns a result whose name is in seen
GenerateSeen ==
    /\ pc = "generate"
    /\ terminate_after # 0
    /\ \E name \in GenNames : ~NotSeen(name, seen)
    /\ generated' = "some"
    /\ terminate_after' = terminate_after - 1
    /\ UNCHANGED <<pc, error, argVars, whatfunc, original_position,
                   partitionVars, pass, previous, probe, seen, presented>>

\* an iteration in which GenerateChain returns a result whose name is not
\* in seen: the counter starts again, the name is recorded and shown
GenerateNew ==
    /\ pc = "generate"
    /\ terminate_after # 0
    /\ \E name \in GenNames :
         /\ NotSeen(name, seen)
         /\ seen' = seen \cup {name}
         /\ presented' =
              [n \in DOMAIN presented \cup {name} |->
                 (IF n \in DOMAIN presented THEN presented[n] ELSE 0)
                 + (IF n = name THEN 1 ELSE 0)]
    /\ generated' = "some"
    /\ terminate_after' = TERMINATION_COUNT
    /\ UNCHANGED <<pc, error, argVars, whatfunc, original_position,
                   partitionVars, pass, previous, probe>>

\* while terminate_after: the counter is 0 and the program ends
GenerationEnds ==
    /\ pc = "generate"
    /\ terminate_after = 0
    /\ pc' = "done"
    /\ UNCHANGED <<error, argVars, whatfunc, original_position, partitionVars,
                   pass, previous, probe, generationVars>>

GenNext ==
    \/ ParseArgs
    \/ NextWord
    \/ Iterate
    \/ Yield
    \/ Partitioned
    \/ SeenInit
    \/ GenerateNone
    \/ GenerateSeen
    \/ GenerateNew
    \/ GenerationEnds

GenSpec == GenInit /\ [][GenNext]_vars

----------------------------------------------------------------------------
(* PartitionGroup on one word, as a function of the word alone *)

\* the states (letters left, accumulators) one iteration of the while loop
\* can lead to from the states of S that have letters left
LoopSuccessors(S, f, orig) ==
    LET ps == IF orig = "random" THEN ResolvedPositions ELSE {orig}
        rs == IF f = "choose_randomly" THEN PlainRules ELSE {f}
    IN  UNION {{Body(st.letterlist, st.nonmatching, p, CallRule(r, st.letterlist)) :
                  p \in ps, r \in rs} :
               st \in {x \in S : x.letterlist # <<>>}}

\* every tuple the while loop can end with from the states of S, added to acc
RECURSIVE Outcomes(_, _, _, _)
Outcomes(S, acc, f, orig) ==
    IF S = {} THEN acc
    ELSE Outcomes(LoopSuccessors(S, f, orig),
                  acc \cup {YieldTuple(st.nonmatching) : st \in {x \in S : x.letterlist = <<>>}},
                  f, orig)

\* what PartitionGroup([word], f, orig) can yield
SingleWordOutcomes(word, f, orig) ==
    Outcomes({[letterlist |-> word, nonmatching |-> <<<<>>>>]}, {}, f, orig)

\* every (word, rule function, split, tuple) such that PartitionGroup can
\* yield the tuple for the word alone, over the words of the enumerated corpora
OutcomeTable ==
    UNION {{<<c[1], c[2], c[3], t>> : t \in SingleWordOutcomes(c[1], c[2], c[3])} :
           c \in (Words \cup {Food, Queue}) \X (PlainRules \cup {"choose_randomly"}) \X SplitChoices}

----------------------------------------------------------------------------
(* The claims *)

\* the word the while loop is working on
CurrentWord == entries[widx]

InLoop == pc \in {"while", "choose"}

\* C1. Round-trip: for every word, every rule and every split position
\* (every outcome of the random choices included), the segments yielded for
\* the word, joined in order with no separator, are the word.
C1_RoundTrip ==
    /\ Len(yielded) <= Len(entries)
    /\ \A i \in 1..Len(yielded) : Join(yielded[i]) = entries[i]

\* a word cut in two by a match, under the random rule and the random position
C1_Witness ==
    /\ pc = "partitioned"
    /\ whatfunc = "choose_randomly"
    /\ original_position = "random"
    /\ entries = << <<"d", "o", "o">> >>
    /\ yielded = << << <<"d">>, <<"o", "o">> >> >>

\* C2. Non-emptiness: no segment of a yielded tuple is the empty string; the
\* accumulators left empty are dropped and the others keep their order.
C2_NonEmpty ==
    /\ \A i \in 1..Len(yielded) : \A j \in 1..Len(yielded[i]) : yielded[i][j] # <<>>
    /\ (pc = "for" /\ widx > 0) =>
          /\ Len(yielded[widx]) = Cardinality({j \in 1..Len(nonmatching) : nonmatching[j] # <<>>})
          /\ Join(yielded[widx]) = Join(nonmatching)

\* a tuple that was yielded from accumulators of which the first and the
\* last were empty
C2_Witness ==
    /\ pc = "for"
    /\ widx > 0
    /\ Len(nonmatching) = 3
    /\ nonmatching[1] = <<>>
    /\ nonmatching[3] = <<>>
    /\ yielded[widx] = <<nonmatching[2]>>

\* C3. Progress: every call of the rule made for a word is paid for by at
\* least one letter leaving letterlist, so the calls made and the letters
\* left never exceed the letters of the word, and the loop has made at most
\* len(w) calls when it ends.
C3_Progress ==
    /\ InLoop =>
          (IF pc = "choose" THEN attempts - 1 ELSE attempts) + Len(letterlist)
             <= Len(CurrentWord)
    /\ (pc = "choose") => letterlist # <<>>
    /\ (pc \in {"for", "partitioned"} /\ widx > 0) => attempts <= Len(CurrentWord)

\* a three-letter word for which the loop has ended after three calls of the
\* random rule
C3_Witness ==
    /\ pc = "for"
    /\ widx > 0
    /\ whatfunc = "choose_randomly"
    /\ Len(CurrentWord) = 3
    /\ attempts = 3
    /\ Len(yielded) = widx

IsVowel(c) == c \in VOWEL_SET

\* two vowels side by side at i and i + 1
PairAt(s, i) == i >= 1 /\ i + 1 <= Len(s) /\ IsVowel(s[i]) /\ IsVowel(s[i + 1])

\* C4. Position semantics: "food" under groupedvowels becomes f|oo|d around,
\* f|ood before and foo|d after; for every word, under groupedvowels, a
\* matched run (two vowels or more) is a segment of its own under around,
\* starts its segment under before and ends its segment under after.
C4_PositionSemantics ==
    (pc = "partitioned" /\ whatfunc = "groupedvowels") =>
       /\ (entries = <<Food>> /\ original_position = "around") =>
             yielded = << << <<"f">>, <<"o", "o">>, <<"d">> >> >>
       /\ (entries = <<Food>> /\ original_position = "before") =>
             yielded = << << <<"f">>, <<"o", "o", "d">> >> >>
       /\ (entries = <<Food>> /\ original_position = "after") =>
             yielded = << << <<"f", "o", "o">>, <<"d">> >> >>
       /\ \A w \in 1..Len(yielded) :
            LET t == yielded[w] IN
            \A j \in 1..Len(t) :
               LET seg == t[j] IN
               /\ original_position = "around" =>
                    ((\E i \in 1..Len(seg) : PairAt(seg, i)) =>
                        \A k \in 1..Len(seg) : IsVowel(seg[k]))
               /\ original_position = "before" =>
                    /\ \A i \in 1..Len(seg) :
                          PairAt(seg, i) => \A k \in 1..i : IsVowel(seg[k])
                    /\ j > 1 => PairAt(seg, 1)
               /\ original_position = "after" =>
                    /\ \A i \in 1..Len(seg) :
                          PairAt(seg, i) => \A k \in i..Len(seg) : IsVowel(seg[k])
                    /\ j < Len(t) => PairAt(seg, Len(seg) - 1)

\* "food" has been partitioned under groupedvowels with the split before
C4_Witness ==
    /\ pc = "partitioned"
    /\ whatfunc = "groupedvowels"
    /\ original_position = "before"
    /\ entries = <<Food>>
    /\ Len(yielded) = 1
    /\ Len(yielded[1]) = 2

\* C5. Determinism: with neither the random rule nor the random position,
\* a second run of PartitionGroup on the same word with the same rule and
\* position yields what the first run yielded.
C5_Determinism ==
    (pass = 2 /\ whatfunc # "choose_randomly" /\ original_position # "random") =>
       /\ Len(yielded) <= Len(previous)
       /\ \A i \in 1..Len(yielded) : yielded[i] = previous[i]
       /\ pc = "partitioned" => yielded = previous

\* the second run of a deterministic configuration has ended, on a word
\* that was cut in two
C5_Witness ==
    /\ pass = 2
    /\ pc = "partitioned"
    /\ whatfunc = "vowelconsonant"
    /\ original_position = "after"
    /\ Len(previous) = 1
    /\ Len(previous[1]) = 2
    /\ yielded = previous

\* C6. Driver mapping: one tuple is yielded per word, in the order of the
\* words, and the tuple yielded for a word is one that PartitionGroup yields
\* for that word alone under the same rule and split, whatever words came
\* before it; an empty word yields the empty tuple.
C6_DriverMapping ==
    /\ pc \in {"for", "partitioned"} => Len(yielded) = widx
    /\ InLoop => Len(yielded) = widx - 1
    /\ pc = "partitioned" => Len(yielded) = Len(entries)
    /\ pc \in {"for", "partitioned"} =>
          \A i \in 1..Len(yielded) :
             /\ <<entries[i], whatfunc, original_position, yielded[i]>> \in OutcomeTable
             /\ entries[i] = <<>> => yielded[i] = <<>>

\* a corpus of an empty word and a word that is cut in two, both yielded
C6_Witness ==
    /\ pc = "partitioned"
    /\ Len(entries) = 2
    /\ entries[1] = <<>>
    /\ entries[2] = <<"d", "o", "o">>
    /\ yielded[1] = <<>>
    /\ yielded[2] = << <<"d">>, <<"o", "o">> >>

\* C7. ConfigurationError: with a rule name or a split name that is not one
\* of the choices, the program ends with a usage error before PartitionGroup
\* is called, and no word is partitioned.
C7_ConfigurationError ==
    (argMethod \notin MethodNames \/ argSplit \notin {"before", "after", "around", "random"}) =>
       /\ pc \in {"start", "error"}
       /\ pc = "error" => error = "usage"
       /\ widx = 0
       /\ yielded = <<>>
       /\ whatfunc = ""

\* a valid rule with an unknown split name has been refused, with words
\* waiting to be partitioned
C7_Witness ==
    /\ pc = "error"
    /\ error = "usage"
    /\ argMethod = "groupedvowels"
    /\ argSplit = "bogus"
    /\ entries = <<Food>>

\* C10. The random rule never selects itself: the key random.choice returns
\* in choose_randomly is one of the other five.
C10_NeverSelectsItself == selected # "random"

\* C8 as claimed: each of the five plain rules, called on an empty list,
\* returns matched = false and does not raise.
C8_EmptyInputNoMatch ==
    (probe.name \in PlainRules /\ probe.what = <<>>) =>
       (~probe.result.match /\ ~probe.result.raised)

\* C8, amended. On an empty list groupedvowels, vowelconsonant (opposing)
\* and twocommon return (False, 1) without raising; letters returns
\* (True, 1) and eachvowel raises IndexError.
C8_EmptyInput ==
    (probe.name \in PlainRules /\ probe.what = <<>>) =>
       /\ probe.name \in {"groupedvowels", "vowelconsonant", "twocommon"} =>
             probe.result = Result(FALSE, 1)
       /\ probe.name = "letters" => probe.result = Result(TRUE, 1)
       /\ probe.name = "eachvowel" => probe.result.raised

\* twocommon has been called on the empty list and returned no match
C8_Witness ==
    /\ probe.name = "twocommon"
    /\ probe.what = <<>>
    /\ ~probe.result.match
    /\ ~probe.result.raised

\* the names that have been shown to the operator
Shown == DOMAIN presented

\* C9. Seen-filtering: a name is shown only if it is not in seen, which
\* starts as the capitalized corpus words and gains every name shown; so no
\* corpus word (as read or capitalized) is ever shown and no name is shown
\* twice.
C9_SeenFiltering ==
    /\ \A n \in Shown : presented[n] = 1
    /\ \A i \in 1..Len(entries) :
          entries[i] \notin Shown /\ Capitalize(entries[i]) \notin Shown
    /\ pc \in {"generate", "done"} =>
          seen = {Capitalize(entries[i]) : i \in 1..Len(entries)} \cup Shown
    /\ pc \notin {"generate", "done"} => Shown = {}

\* a name has been shown, and since then a generation gave a name that was
\* in seen (the corpus word in another case) and was not shown
C9_Witness ==
    /\ pc = "generate"
    /\ entries = << <<"a">> >>
    /\ Shown = { <<"A", "a">> }
    /\ terminate_after = TERMINATION_COUNT - 1

\* C11. The generation loop counts every attempt that produced nothing new,
\* an attempt that returned no result included: such an attempt takes one
\* off the counter (so 2048 of them in a row end the loop), and the counter
\* goes back to 2048 only on a name not seen before.
C11_NothingNewCounts ==
    [][(pc = "generate" /\ terminate_after # 0) =>
          /\ generated' = "none" => terminate_after' = terminate_after - 1
          /\ seen' = seen => terminate_after' = terminate_after - 1
          /\ seen' # seen => terminate_after' = TERMINATION_COUNT]_vars

\* C12. ContractViolation: when a rule of the caller's own returns a match
\* with a consume count of zero or less, the partitioning of that word is
\* aborted with an error; it neither goes on looping nor yields a tuple.
C12_ContractViolation ==
    (probe.name = "custom" /\ probe.result.match /\ probe.result.consume <= 0)
        => pc = "error"

\* C13. Consume-count bound: when one of the six supplied rules, called on
\* a non-empty list r, returns a match, its consume count c is at least 1
\* and at most len(r); so r[:c] is exactly c letters, r[c:] is the other
\* len(r) - c, and the two together are r.
C13_ConsumeBound ==
    (probe.name # "" /\ probe.what # <<>> /\ ~probe.result.raised
        /\ probe.result.match) =>
       LET r == probe.what
           c == probe.result.consume
       IN  /\ 1 <= c
           /\ c <= Len(r)
           /\ Len(PySliceTo(r, c)) = c
           /\ Len(PySliceFrom(r, c)) = Len(r) - c
           /\ PySliceTo(r, c) \o PySliceFrom(r, c) = r

\* groupedvowels has matched the two vowels at the front of "ood"
C13_Witness ==
    /\ probe.name = "groupedvowels"
    /\ probe.what = <<"o", "o", "d">>
    /\ probe.result = Result(TRUE, 2)

\* C14. Random split position: when the split position is 'random', every
\* iteration of the while loop resolves it anew, so each of before, after
\* and around can be the position of the iteration whatever the position of
\* the iteration before; when it is not 'random', position stays the given
\* one through every iteration of every word.
C14_RandomPosition ==
    /\ (pc \in {"for", "while", "choose", "partitioned"}
           /\ original_position # "random") =>
          position = original_position
    /\ (pc = "choose" /\ original_position = "random") =>
          position \in ResolvedPositions
    /\ (pc = "while" /\ letterlist # <<>> /\ original_position = "random") =>
          \A p \in ResolvedPositions :
             ENABLED ((Iterate \/ IterateRandom) /\ position' = p)

\* with the rule letters and the split position 'random', "od" has been
\* yielded as ("od",): the 'o' was stitched before and the 'd' after
C14_Witness ==
    /\ whatfunc = "letters"
    /\ original_position = "random"
    /\ entries = << <<"o", "d">> >>
    /\ yielded = << << <<"o", "d">> >> >>

\* the length of the run of consecutive vowels at the front of l
FrontVowelRun(l) ==
    CHOOSE n \in 0..Len(l) :
       /\ \A i \in 1..n : l[i] \in VOWEL_SET
       /\ n = Len(l) \/ l[n + 1] \notin VOWEL_SET

\* an iteration of the while loop is run to its end with the rule groupedvowels
GroupedVowelsStep ==
    /\ pc = "while"
    /\ whatfunc = "groupedvowels"
    /\ attempts' = attempts + 1

\* C15. groupedvowels: an iteration with this rule is a match iff the run
\* of vowels at the front of the remaining letters has two letters or more,
\* and then the whole run is consumed and stitched as one matched run; with
\* a front run of 0 or 1 the first letter alone is absorbed into the last
\* accumulator. On "queue" the 'q' is absorbed and the next iteration
\* consumes the four letters "ueue".
C15_GroupedVowels ==
    [][GroupedVowelsStep =>
          LET n == FrontVowelRun(letterlist)
              last == Len(nonmatching)
          IN  /\ n >= 2 =>
                   /\ letterlist' = SubSeq(letterlist, n + 1, Len(letterlist))
                   /\ Len(nonmatching') > last
                   /\ Join(nonmatching') =
                         Join(nonmatching) \o SubSeq(letterlist, 1, n)
              /\ n < 2 =>
                   /\ letterlist' = Tail(letterlist)
                   /\ nonmatching' = [nonmatching EXCEPT
                                         ![last] = @ \o <<Head(letterlist)>>]
              /\ letterlist = Queue =>
                   /\ letterlist' = <<"u", "e", "u", "e">>
                   /\ nonmatching' = << <<"q">> >>
              /\ letterlist = <<"u", "e", "u", "e">> => letterlist' = <<>>]_vars

\* "queue" has been partitioned by groupedvowels in two iterations
C15_Witness ==
    /\ whatfunc = "groupedvowels"
    /\ entries = <<Queue>>
    /\ pc = "while"
    /\ attempts = 2
    /\ letterlist = <<>>
    /\ Join(nonmatching) = Queue

\* a is the front of b
IsPrefix(a, b) == Len(a) <= Len(b) /\ SubSeq(b, 1, Len(a)) = a

\* C16. Loop invariant of PartitionGroup: before and after every iteration
\* of the while loop, the accumulators joined in order, followed by the
\* remaining letters, are the word being partitioned; an iteration only adds
\* letters at the end of the last accumulator or adds accumulators after it,
\* and leaves every earlier accumulator as it was.
C16_LoopInvariant ==
    [][/\ InLoop => Join(nonmatching) \o letterlist = CurrentWord
       /\ InLoop' => Join(nonmatching') \o letterlist' = CurrentWord'
       /\ (InLoop /\ InLoop') =>
             LET last == Len(nonmatching)
             IN  /\ Len(nonmatching') >= last
                 /\ \A i \in 1..(last - 1) : nonmatching'[i] = nonmatching[i]
                 /\ IsPrefix(nonmatching[last], nonmatching'[last])]_vars

\* an iteration has absorbed a letter after an earlier one ended a matched
\* run: there are two accumulators with letters and letters still to go
C16_Witness ==
    /\ pc = "while"
    /\ attempts >= 2
    /\ letterlist # <<>>
    /\ Len(nonmatching) >= 2
    /\ nonmatching[1] # <<>>
    /\ nonmatching[Len(nonmatching)] # <<>>

\* a step in which a rule is called on letterlist: the call made by an
\* iteration of the while loop, or a call made inside choose_randomly
RuleInvoked ==
    \/ pc = "while" /\ attempts' = attempts + 1
    \/ pc = "choose"

\* C17. PartitionGroup never calls a rule on an empty list: every call, the
\* calls made by choose_randomly included, is given at least one letter, so
\* what[0] in eachvowel never raises IndexError.
C17_NeverCalledOnEmpty ==
    [][/\ RuleInvoked => letterlist # <<>>
       /\ error' # "IndexError"]_vars

\* eachvowel has been called on each letter of "od", the last call on the
\* one letter left, and the word has been yielded
C17_Witness ==
    /\ whatfunc = "eachvowel"
    /\ entries = << <<"o", "d">> >>
    /\ pc = "for"
    /\ attempts = 2
    /\ yielded = << << <<"o">>, <<"d">> >> >>
    /\ error = ""

====
